---- MODULE Spec2Model ----
(***************************************************************************)
(* Model of scripts/port-skills.py: the text rewriters of transform_body,  *)
(* the frontmatter splitter, port_skill and the batch loop of main.        *)
(*                                                                         *)
(* Text is a sequence of tokens.  A token is a TLA+ string standing for    *)
(* the characters it spells: "\n", " ", "#", ":" are single characters,    *)
(* FENCE (three backticks), "**", "---", "/agents/", "func " are the        *)
(* multi-character units the regular expressions of the script look for.   *)
(* Inputs are built from such units: in a body given to the fence tagger   *)
(* backticks occur in runs of three, asterisks occur in runs of two,       *)
(* dashes in runs of three, "func " is followed by a letter, and bodies    *)
(* with links (whose replacement brings single backticks, TICK) hold no    *)
(* fences.  On these texts a regular expression over characters and the    *)
(* same expression over tokens match alike.                                *)
(***************************************************************************)
EXTENDS Integers, Sequences, FiniteSets, TLC

VARIABLES body, out, prev, pc, passes,
          docs, dry_run, fs, fs0, idx, results, created, skipped

vars == <<body, out, prev, pc, passes,
          docs, dry_run, fs, fs0, idx, results, created, skipped>>

textVars == <<body, out, prev, pc, passes>>
batchVars == <<docs, dry_run, fs, fs0, idx, results, created, skipped>>

(***************************************************************************)
(* Bounds                                                                  *)
(***************************************************************************)
MaxFencePieces == 5
MaxPasses == 2
MaxHeadingPieces == 6
MaxEmphasisPieces == 5
MaxTransformPieces == 4
MaxDocs == 3

\* the fence marker, three backticks
FENCE == "<fence>"

(***************************************************************************)
(* Strings                                                                 *)
(***************************************************************************)
Min(a, b) == IF a < b THEN a ELSE b

Drop(s, n) == SubSeq(s, n + 1, Len(s))

StartsWith(s, p) == Len(p) <= Len(s) /\ SubSeq(s, 1, Len(p)) = p

Contains(s, c) == \E i \in 1..Len(s) : s[i] = c

\* str.strip() and the class \s: the whitespace characters of the alphabet
IsSpace(c) == c \in {" ", "\t", "\n"}

RECURSIVE lstrip(_)
lstrip(s) ==
  IF s # <<>> /\ IsSpace(Head(s)) THEN lstrip(Tail(s)) ELSE s

RECURSIVE rstrip(_)
rstrip(s) ==
  IF s # <<>> /\ IsSpace(s[Len(s)]) THEN rstrip(SubSeq(s, 1, Len(s) - 1)) ELSE s

strip(s) == lstrip(rstrip(s))

\* str.split("\n")
RECURSIVE split(_)
split(s) ==
  IF ~Contains(s, "\n") THEN <<s>>
  ELSE LET i == CHOOSE j \in 1..Len(s) :
                  s[j] = "\n" /\ \A k \in 1..(j - 1) : s[k] # "\n"
       IN <<SubSeq(s, 1, i - 1)>> \o split(Drop(s, i))

\* "\n".join(lines)
RECURSIVE join(_)
join(lines) ==
  IF lines = <<>> THEN <<>>
  ELSE IF Len(lines) = 1 THEN lines[1]
  ELSE lines[1] \o <<"\n">> \o join(Tail(lines))

\* the texts made of at most n pieces of a pool
RECURSIVE Texts(_, _)
Texts(pool, n) ==
  IF n = 0 THEN {<<>>}
  ELSE LET shorter == Texts(pool, n - 1)
       IN shorter \cup {t \o p : t \in shorter, p \in pool}

(***************************************************************************)
(* fix_fenced_code_blocks                                                  *)
(***************************************************************************)
swift_indicators ==
  {"struct ", "class ", "func ", "var ", "let ", "@", "import ",
   "enum ", "protocol ", "extension ", "case ", "guard ", "if let"}

bash_indicators == {"$", "cd ", "rm ", "cp ", "mkdir ", "git ", "brew ", "xcrun "}

\* every indicator of the alphabet is one token, and no two tokens of the
\* alphabet spell an indicator across their border
detect_language(code) ==
  IF \E i \in swift_indicators : Contains(code, i) THEN "swift"
  ELSE IF \E i \in bash_indicators : Contains(code, i) THEN "bash"
  ELSE IF Contains(code, "https://") \/ Contains(code, "http://") \/ Contains(code, "~/")
       THEN "text"
  ELSE "text"

\* the longest run of [ \t] that starts at position p
RECURSIVE IndentLen(_, _)
IndentLen(s, p) ==
  IF p <= Len(s) /\ s[p] \in {" ", "\t"} THEN 1 + IndentLen(s, p + 1) ELSE 0

\* one attempt of the pattern ([ \t]*)```\n(.*?)(?=\1```) at position p.
\* A shorter indent than the whole run cannot be followed by a fence, so the
\* greedy group either takes the run or the attempt fails; the lazy group
\* stops at the first position where the indent and a fence follow; the
\* lookahead consumes nothing, the match ends where the closing fence starts.
FenceMatch(s, p) ==
  LET k      == IndentLen(s, p)
      indent == SubSeq(s, p, p + k - 1)
      q      == p + k + 2
      opens  == p + k + 1 <= Len(s) /\ s[p + k] = FENCE /\ s[p + k + 1] = "\n"
      ends   == {e \in q..(Len(s) + 1) : StartsWith(Drop(s, e - 1), indent \o <<FENCE>>)}
  IN IF opens /\ ends # {}
     THEN LET e == CHOOSE x \in ends : \A y \in ends : x <= y
          IN [ok |-> TRUE, indent |-> indent, code |-> SubSeq(s, q, e - 1), end |-> e]
     ELSE [ok |-> FALSE, indent |-> <<>>, code |-> <<>>, end |-> p]

\* f"{indent}```{lang}\n{code}{indent}```"
replace_code_block(indent, code) ==
  indent \o <<FENCE, detect_language(code), "\n">> \o code \o indent \o <<FENCE>>

\* re.sub: leftmost matches, left to right, the scan resuming at the end of
\* each match
RECURSIVE FenceSub(_, _)
FenceSub(s, p) ==
  IF p > Len(s) THEN <<>>
  ELSE LET m == FenceMatch(s, p)
       IN IF m.ok
          THEN replace_code_block(m.indent, m.code) \o FenceSub(s, m.end)
          ELSE <<s[p]>> \o FenceSub(s, p + 1)

fix_fenced_code_blocks(b) == FenceSub(b, 1)

(***************************************************************************)
(* fix_duplicate_headings                                                  *)
(***************************************************************************)
\* the number of "#" a line starts with
RECURSIVE HashRun(_)
HashRun(line) ==
  IF line # <<>> /\ Head(line) = "#" THEN 1 + HashRun(Tail(line)) ELSE 0

\* the number of whitespace characters a text starts with
RECURSIVE SpaceRun(_)
SpaceRun(s) ==
  IF s # <<>> /\ IsSpace(Head(s)) THEN 1 + SpaceRun(Tail(s)) ELSE 0

Hashes(n) == [i \in 1..n |-> "#"]

\* re.match(r"^(#{1,6})\s+", line): the run of "#" is 1 to 6 long (a longer
\* run leaves a "#" where \s is wanted) and whitespace follows it
HeadingPrefix(line) ==
  LET k == HashRun(line)
  IN k \in 1..6 /\ SpaceRun(Drop(line, k)) >= 1

\* re.match(r"^(#{1,6})\s+(.+)$", line): \s+ takes the whole run of
\* whitespace and gives its last character back when nothing else is left
\* for (.+)
HeadingMatch(line) ==
  LET k    == HashRun(line)
      w    == SpaceRun(Drop(line, k))
      rest == Drop(line, k + w)
  IN IF k \in 1..6 /\ w >= 1 /\ rest # <<>>
     THEN [ok |-> TRUE, prefix |-> k, text |-> rest]
     ELSE IF k \in 1..6 /\ w >= 2
     THEN [ok |-> TRUE, prefix |-> k, text |-> <<line[k + w]>>]
     ELSE [ok |-> FALSE, prefix |-> 0, text |-> <<>>]

Digit(d) == <<"0", "1", "2", "3", "4", "5", "6", "7", "8", "9">>[d + 1]

\* str(n) of a count
RECURSIVE Dec(_)
Dec(n) == IF n < 10 THEN <<Digit(n)>> ELSE Dec(n \div 10) \o <<Digit(n % 10)>>

\* the loop over the lines from line i on, heading_counts being the counts
\* of the keys seen so far (a key is the pair of prefix and text)
RECURSIVE DuplicateLoop(_, _, _)
DuplicateLoop(lines, i, heading_counts) ==
  IF i > Len(lines) THEN <<>>
  ELSE LET line == lines[i]
           m    == HeadingMatch(line)
           key  == <<m.prefix, m.text>>
       IN IF m.ok /\ key \in DOMAIN heading_counts
          THEN LET n == heading_counts[key] + 1
               IN <<Hashes(m.prefix) \o <<" ">> \o m.text \o <<" ", "(">> \o Dec(n) \o <<")">>>>
                  \o DuplicateLoop(lines, i + 1, [heading_counts EXCEPT ![key] = n])
          ELSE IF m.ok
          THEN <<line>> \o DuplicateLoop(lines, i + 1, (key :> 1) @@ heading_counts)
          ELSE <<line>> \o DuplicateLoop(lines, i + 1, heading_counts)

fix_duplicate_headings(b) == join(DuplicateLoop(split(b), 1, <<>>))

(***************************************************************************)
(* fix_emphasis_as_heading                                                 *)
(***************************************************************************)
EndsWith(s, c) == s # <<>> /\ s[Len(s)] = c

ChopLast(s) == SubSeq(s, 1, Len(s) - 1)

\* re.match(r"^\*\*[^*]+\*\*$", stripped)
BoldOnly(stripped) ==
  /\ Len(stripped) >= 3
  /\ stripped[1] = "**"
  /\ stripped[Len(stripped)] = "**"
  /\ \A j \in 2..(Len(stripped) - 1) : stripped[j] \notin {"**", "*"}

\* new_level without the cap at level 6
new_level_uncapped(last_heading_level) ==
  IF last_heading_level > 0 THEN last_heading_level + 1 ELSE 3

\* min(last_heading_level + 1, 6) if last_heading_level > 0 else 3
new_level(last_heading_level) ==
  IF last_heading_level > 0 THEN Min(last_heading_level + 1, 6) ELSE 3

\* the line i is just bold text, preceded and followed by blank lines
Standalone(lines, i) ==
  /\ BoldOnly(strip(lines[i]))
  /\ i = 1 \/ strip(lines[i - 1]) = <<>>
  /\ i = Len(lines) \/ strip(lines[i + 1]) = <<>>

\* the loop over the lines from line i on
RECURSIVE EmphasisLoop(_, _, _)
EmphasisLoop(lines, i, last_heading_level) ==
  IF i > Len(lines) THEN <<>>
  ELSE LET line     == lines[i]
           stripped == strip(line)
       IN IF HeadingPrefix(line)
          THEN <<IF EndsWith(rstrip(line), ":") THEN ChopLast(rstrip(line)) ELSE line>>
               \o EmphasisLoop(lines, i + 1, HashRun(line))
          ELSE IF Standalone(lines, i)
          THEN LET inner == SubSeq(stripped, 2, Len(stripped) - 1)
                   text  == IF EndsWith(inner, ":") THEN ChopLast(inner) ELSE inner
                   level == new_level(last_heading_level)
               IN <<Hashes(level) \o <<" ">> \o text>>
                  \o EmphasisLoop(lines, i + 1, level)
          ELSE <<line>> \o EmphasisLoop(lines, i + 1, last_heading_level)

fix_emphasis_as_heading(b) == join(EmphasisLoop(split(b), 1, 0))

(***************************************************************************)
(* transform_body                                                          *)
(***************************************************************************)
\* a single backtick
TICK == "<tick>"

\* the least position of c in s that is at least p, or 0
FirstFrom(s, p, c) ==
  LET at == {j \in p..Len(s) : s[j] = c}
  IN IF at = {} THEN 0 ELSE CHOOSE x \in at : \A y \in at : x <= y

\* one attempt of \[([^\]]+)\]\(<prefix>[^\)]+\) at position p: the link
\* text runs to the first "]", the target to the first ")", and neither is
\* empty
LinkMatch(s, p, prefix) ==
  LET r == FirstFrom(s, p + 1, "]")
      c == FirstFrom(s, r + 3, ")")
  IN IF /\ s[p] = "["
        /\ r >= p + 2
        /\ r + 2 <= Len(s)
        /\ s[r + 1] = "("
        /\ s[r + 2] = prefix
        /\ c >= r + 4
     THEN [ok |-> TRUE, text |-> SubSeq(s, p + 1, r - 1), end |-> c + 1]
     ELSE [ok |-> FALSE, text |-> <<>>, end |-> p]

\* re.sub of one link pattern, the replacement being a code span of the
\* link text and a suffix
RECURSIVE LinkSub(_, _, _, _)
LinkSub(s, p, prefix, suffix) ==
  IF p > Len(s) THEN <<>>
  ELSE LET m == LinkMatch(s, p, prefix)
       IN IF m.ok
          THEN <<TICK>> \o m.text \o <<TICK>> \o suffix \o LinkSub(s, m.end, prefix, suffix)
          ELSE <<s[p]>> \o LinkSub(s, p + 1, prefix, suffix)

AgentNote == <<" ", "agent", " ", "(", "see upstream Axiom docs", ")">>
CommandNote == <<" ", "command", " ", "(", "Claude Code only", ")">>
SkillNote == <<" ", "skill">>

\* the three substitutions, in the order of the code
rewrite_links(b) ==
  LinkSub(LinkSub(LinkSub(b, 1, "/agents/", AgentNote),
                  1, "/commands/", CommandNote),
          1, "/skills/", SkillNote)

transform_body(b) ==
  fix_emphasis_as_heading(fix_duplicate_headings(fix_fenced_code_blocks(rewrite_links(b))))

(***************************************************************************)
(* extract_frontmatter                                                     *)
(***************************************************************************)
\* the frontmatter dict: a function from keys to values, a later line with
\* the same key replacing the earlier one
RECURSIVE ParseLines(_, _, _)
ParseLines(lines, i, frontmatter) ==
  IF i > Len(lines) THEN frontmatter
  ELSE LET line == lines[i]
           c    == FirstFrom(line, 1, ":")
       IN IF c > 0
          THEN ParseLines(lines, i + 1,
                 (strip(SubSeq(line, 1, c - 1)) :> strip(Drop(line, c))) @@ frontmatter)
          ELSE ParseLines(lines, i + 1, frontmatter)

\* content[3:] is the content without its first token "---"; the closing
\* delimiter is the first "\n---\n" of it
extract_frontmatter(content) ==
  IF ~StartsWith(content, <<"---">>)
  THEN [frontmatter |-> <<>>, body |-> content]
  ELSE LET rest == Drop(content, 1)
           ends == {i \in 1..(Len(rest) - 2) :
                      rest[i] = "\n" /\ rest[i + 1] = "---" /\ rest[i + 2] = "\n"}
       IN IF ends = {}
          THEN [frontmatter |-> <<>>, body |-> content]
          ELSE LET i == CHOOSE x \in ends : \A y \in ends : x <= y
               IN [frontmatter |-> ParseLines(split(strip(SubSeq(rest, 1, i - 1))), 1, <<>>),
                   body        |-> Drop(rest, i + 2)]

\* frontmatter.get(key): the value, or the empty text, which is falsy as
\* None is
Get(frontmatter, key) ==
  IF <<key>> \in DOMAIN frontmatter THEN frontmatter[<<key>>] ELSE <<>>

(***************************************************************************)
(* The output directory: the directories and the regular files below it,   *)
(* a path being the sequence of its components and <<>> the output         *)
(* directory itself                                                        *)
(***************************************************************************)
\* the components of a relative path given as text: pathlib splits at "/"
\* and drops empty components
RECURSIVE Components(_)
Components(name) ==
  LET c == FirstFrom(name, 1, "/")
  IN IF name = <<>> THEN <<>>
     ELSE IF c = 0 THEN <<name>>
     ELSE IF c = 1 THEN Components(Tail(name))
     ELSE <<SubSeq(name, 1, c - 1)>> \o Components(Drop(name, c))

Prefixes(path) == {SubSeq(path, 1, n) : n \in 0..Len(path)}

\* Path.is_dir() in the place of Path.exists()
PathIsDir(f, path) == path \in f.dirs

\* Path.exists()
PathExists(f, path) == path \in f.dirs \/ path \in DOMAIN f.files

\* Path.mkdir(parents=True, exist_ok=True) raises FileExistsError or
\* NotADirectoryError when the path or one of its parents is a regular file
MkdirRaises(f, path) == \E q \in Prefixes(path) : q \in DOMAIN f.files

Mkdir(f, path) == [f EXCEPT !.dirs = @ \cup Prefixes(path)]

\* Path.write_text()
WriteText(f, path, content) == [f EXCEPT !.files = (path :> content) @@ @]

(***************************************************************************)
(* port_skill                                                              *)
(***************************************************************************)
\* output_content with the description line written whether or not the
\* source has a description
output_content_described(frontmatter, skill_name, transformed_body) ==
  <<"---", "\n", "name", ":", " ">> \o skill_name \o <<"\n">>
  \o <<"description", ":", " ">> \o Get(frontmatter, "description") \o <<"\n">>
  \o <<"---", "\n">> \o transformed_body

\* "\n".join(output_lines)
output_content(frontmatter, skill_name, transformed_body) ==
  <<"---", "\n", "name", ":", " ">> \o skill_name \o <<"\n">>
  \o (IF Get(frontmatter, "description") # <<>>
      THEN <<"description", ":", " ">> \o Get(frontmatter, "description") \o <<"\n">>
      ELSE <<>>)
  \o <<"---", "\n">> \o transformed_body

\* the result of one call: the message (its kind and the name or source it
\* tells), was_created, the output directory after the call, and whether
\* the call raised instead of returning
port_skill(source, content, f, dry) ==
  LET parsed     == extract_frontmatter(content)
      skill_name == <<"axiom-">> \o Get(parsed.frontmatter, "name")
      skill_dir  == Components(skill_name)
      skill_file == skill_dir \o <<<<"SKILL.md">>>>
      text       == output_content(parsed.frontmatter, skill_name,
                                   transform_body(parsed.body))
  IN IF Get(parsed.frontmatter, "name") = <<>>
     THEN [kind |-> "SKIP (no name)", what |-> <<source>>, was_created |-> FALSE,
           fs |-> f, raised |-> FALSE]
     ELSE IF PathExists(f, skill_file)
     THEN [kind |-> "EXISTS", what |-> skill_name, was_created |-> FALSE,
           fs |-> f, raised |-> FALSE]
     ELSE IF dry
     THEN [kind |-> "WOULD CREATE", what |-> skill_name, was_created |-> TRUE,
           fs |-> f, raised |-> FALSE]
     ELSE IF MkdirRaises(f, skill_dir)
     THEN [kind |-> "raise", what |-> skill_name, was_created |-> FALSE,
           fs |-> f, raised |-> TRUE]
     ELSE [kind |-> "CREATED", what |-> skill_name, was_created |-> TRUE,
           fs |-> WriteText(Mkdir(f, skill_dir), skill_file, text), raised |-> FALSE]

(***************************************************************************)
(* Idle values of the variables a specification does not use               *)
(***************************************************************************)
NoFs == [dirs |-> {}, files |-> <<>>]

BatchIdle ==
  /\ docs = <<>>
  /\ dry_run = FALSE
  /\ fs = NoFs
  /\ fs0 = NoFs
  /\ idx = 0
  /\ results = <<>>
  /\ created = 0
  /\ skipped = 0

(***************************************************************************)
(* SpecFence: fix_fenced_code_blocks applied to a body, then to its output *)
(***************************************************************************)
FencePool ==
  {<<FENCE>>, <<FENCE, "\n">>, <<"\n">>, <<" ">>, <<"x">>, <<"func ", "x">>, <<"$">>}

InitFence ==
  /\ body \in Texts(FencePool, MaxFencePieces)
  /\ out = body
  /\ prev = body
  /\ pc = "fence"
  /\ passes = 0
  /\ BatchIdle

ApplyFixFenced ==
  /\ pc = "fence"
  /\ passes < MaxPasses
  /\ out' = fix_fenced_code_blocks(out)
  /\ prev' = out
  /\ passes' = passes + 1
  /\ UNCHANGED <<body, pc>>
  /\ UNCHANGED batchVars

NextFence == ApplyFixFenced

SpecFence == InitFence /\ [][NextFence]_vars

Langs == {"swift", "bash", "text"}

RECURSIVE WithoutTags(_)
WithoutTags(s) ==
  IF s = <<>> THEN <<>>
  ELSE IF Head(s) \in Langs THEN WithoutTags(Tail(s))
  ELSE <<Head(s)>> \o WithoutTags(Tail(s))

\* C1: the tagger changes a body only by appending a language tag to
\* untagged opening delimiters: with the tags taken out again the output is
\* the input (same indentation, same content, one closing fence), and the
\* block ```\nfunc foo() {}\n``` becomes ```swift\nfunc foo() {}\n```.
C1_OnlyTagAppended ==
  passes = 1 =>
    /\ WithoutTags(out) = body
    /\ body = <<FENCE, "\n", "func ", "x", "\n", FENCE>>
         => out = <<FENCE, "swift", "\n", "func ", "x", "\n", FENCE>>

\* C8: the tagger is idempotent, a second application changes nothing.
C8_FenceIdempotent == passes = 2 => out = prev

(***************************************************************************)
(* SpecHeadings: fix_duplicate_headings applied to a body                  *)
(***************************************************************************)
HeadingPool ==
  {<<"#", " ", "a">>, <<" ", "(", "2", ")">>, <<"\n">>, <<"a">>, <<"#">>, <<" ">>}

InitHeadings ==
  /\ body \in Texts(HeadingPool, MaxHeadingPieces)
  /\ out = body
  /\ prev = body
  /\ pc = "dup"
  /\ passes = 0
  /\ BatchIdle

ApplyFixDuplicate ==
  /\ pc = "dup"
  /\ out' = fix_duplicate_headings(body)
  /\ pc' = "done"
  /\ UNCHANGED <<body, prev, passes>>
  /\ UNCHANGED batchVars

NextHeadings == ApplyFixDuplicate

SpecHeadings == InitHeadings /\ [][NextHeadings]_vars

\* C2: in the output of fix_duplicate_headings no two heading lines have
\* the same number of "#" and the same heading text.
C2_NoDuplicateHeadings ==
  pc = "done" =>
    LET lines == split(out)
    IN \A i, j \in 1..Len(lines) :
         (i < j /\ HeadingMatch(lines[i]).ok /\ HeadingMatch(lines[j]).ok)
           => \/ HeadingMatch(lines[i]).prefix # HeadingMatch(lines[j]).prefix
              \/ HeadingMatch(lines[i]).text # HeadingMatch(lines[j]).text

(***************************************************************************)
(* SpecEmphasis: fix_emphasis_as_heading applied to a body                 *)
(***************************************************************************)
EmphasisPool ==
  {<<"**", "a", "**">>, <<"\n">>, <<"#", " ", "a">>,
   <<"#", "#", "#", "#", "#", " ", "a">>, <<"#">>, <<" ">>, <<"a">>}

InitEmphasis ==
  /\ body \in Texts(EmphasisPool, MaxEmphasisPieces)
  /\ out = body
  /\ prev = body
  /\ pc = "emph"
  /\ passes = 0
  /\ BatchIdle

ApplyFixEmphasis ==
  /\ pc = "emph"
  /\ out' = fix_emphasis_as_heading(body)
  /\ pc' = "done"
  /\ UNCHANGED <<body, prev, passes>>
  /\ UNCHANGED batchVars

NextEmphasis == ApplyFixEmphasis

SpecEmphasis == InitEmphasis /\ [][NextEmphasis]_vars

Blank(line) == \A j \in 1..Len(line) : IsSpace(line[j])

\* the line i is one bold span and nothing else, between blank lines or the
\* ends of the document
C9_Candidate(lines, i) ==
  /\ BoldOnly(strip(lines[i]))
  /\ i > 1 => Blank(lines[i - 1])
  /\ i < Len(lines) => Blank(lines[i + 1])

\* the level the claim gives to line i: one more than the closest heading
\* line before it in the output, at most 6, and 3 when there is none
C9_Expected(outLines, i) ==
  LET before == {j \in 1..(i - 1) : HeadingPrefix(outLines[j])}
  IN IF before = {} THEN 3
     ELSE LET j == CHOOSE x \in before : \A y \in before : y <= x
          IN Min(HashRun(outLines[j]) + 1, 6)

\* C9: every blank-surrounded bold-only line is emitted as a heading of
\* level min(L + 1, 6), L the level of the closest preceding heading line
\* (original or promoted), or of level 3 when no heading precedes it.
C9_PromotionLevel ==
  pc = "done" =>
    LET inLines  == split(body)
        outLines == split(out)
    IN /\ Len(outLines) = Len(inLines)
       /\ \A i \in 1..Len(inLines) :
            C9_Candidate(inLines, i)
              => /\ HeadingPrefix(outLines[i])
                 /\ HashRun(outLines[i]) = C9_Expected(outLines, i)

\* a bold line after a heading of level 6 is promoted, at the cap, and a
\* bold line with no heading before it is promoted too
C9_Witness ==
  /\ pc = "done"
  /\ \E i \in 1..Len(split(body)) :
       /\ C9_Candidate(split(body), i)
       /\ \E j \in 1..(i - 1) : HashRun(split(body)[j]) = 6 /\ HeadingPrefix(split(body)[j])
       /\ HashRun(split(out)[i]) = 6

(***************************************************************************)
(* SpecTransform: transform_body applied to a body                         *)
(***************************************************************************)
TransformPool ==
  {<<"[">>, <<"a">>,
   <<"]", "(", "/agents/", "a", ")">>,
   <<"]", "(", "/commands/", "a", ")">>,
   <<"]", "(", "/skills/", "a", ")">>,
   <<"#", " ", "a">>, <<":">>, <<" ">>, <<"\n">>, <<"**">>}

InitTransform ==
  /\ body \in Texts(TransformPool, MaxTransformPieces)
  /\ out = body
  /\ prev = body
  /\ pc = "transform"
  /\ passes = 0
  /\ BatchIdle

\* prev keeps the text as it is after the three substitutions
TransformBody ==
  /\ pc = "transform"
  /\ prev' = rewrite_links(body)
  /\ out' = transform_body(body)
  /\ pc' = "done"
  /\ UNCHANGED <<body, passes>>
  /\ UNCHANGED batchVars

NextTransform == TransformBody

SpecTransform == InitTransform /\ [][NextTransform]_vars

\* C3: no heading line in the output of transform_body ends with a colon.
C3_NoHeadingEndsWithColon ==
  pc = "done" =>
    \A i \in 1..Len(split(out)) :
      HeadingPrefix(split(out)[i]) => ~EndsWith(split(out)[i], ":")

LinkPrefixes == {"/agents/", "/commands/", "/skills/"}

\* a link of one of the three source shapes occurs in s
HasSourceLink(s) ==
  \E p \in 1..Len(s) : \E prefix \in LinkPrefixes : LinkMatch(s, p, prefix).ok

\* C4: after the three substitutions no markdown link with a target under
\* /agents/, /commands/ or /skills/ is left, in the text as the
\* substitutions leave it and in the output of transform_body.
C4_NoSourceLinkLeft ==
  pc = "done" => ~HasSourceLink(prev) /\ ~HasSourceLink(out)

(***************************************************************************)
(* Spec: main, the loop over the sorted source documents                   *)
(***************************************************************************)
NameA == <<"---", "\n", "name", ":", " ", "a", "\n", "---", "\n">>
NameADescribed ==
  <<"---", "\n", "name", ":", " ", "a", "\n",
    "description", ":", " ", "d", "\n", "---", "\n">>
NameB == <<"---", "\n", "name", ":", " ", "b", "\n", "---", "\n">>
NameNested == <<"---", "\n", "name", ":", " ", "a", "/", "SKILL.md", "\n", "---", "\n">>
NoNameKey == <<"---", "\n", "description", ":", " ", "d", "\n", "---", "\n">>
Unclosed == <<"---", "\n", "name", ":", " ", "a", "\n">>

PlainBody == <<"x">>
StyledBody == <<"#", " ", "a", ":", "\n", "\n", "**", "a", "**">>

\* the contents of the source documents
DocPool ==
  {PlainBody,
   NameA \o PlainBody,
   NameA \o StyledBody,
   NameADescribed \o StyledBody,
   NameB \o StyledBody,
   NameNested \o PlainBody,
   NoNameKey \o PlainBody,
   Unclosed \o PlainBody}

SkillA == <<<<"axiom-", "a">>, <<"SKILL.md">>>>

\* the output directory before the run: absent, or holding the skill
\* axiom-a of an earlier run
InitialFs ==
  {[dirs |-> {}, files |-> <<>>],
   [dirs |-> {<<>>, <<<<"axiom-", "a">>>>},
    files |-> (SkillA :> <<"---", "\n", "name", ":", " ", "axiom-", "a", "\n", "---", "\n", "old">>)]}

Batches == UNION {[1..n -> DocPool] : n \in 0..MaxDocs}

Init ==
  /\ docs \in Batches
  /\ dry_run \in BOOLEAN
  /\ fs0 \in InitialFs
  /\ fs = fs0
  /\ idx = 1
  /\ results = <<>>
  /\ created = 0
  /\ skipped = 0
  /\ pc = "loop"
  /\ body = <<>>
  /\ out = <<>>
  /\ prev = <<>>
  /\ passes = 0

\* one turn of the loop: port_skill returns and the result is counted
PortNext ==
  /\ pc = "loop"
  /\ idx <= Len(docs)
  /\ LET r == port_skill(idx, docs[idx], fs, dry_run)
     IN /\ ~r.raised
        /\ results' = Append(results, [kind |-> r.kind, what |-> r.what,
                                       was_created |-> r.was_created])
        /\ created' = IF r.was_created THEN created + 1 ELSE created
        /\ skipped' = IF r.was_created THEN skipped ELSE skipped + 1
        /\ fs' = r.fs
  /\ idx' = idx + 1
  /\ UNCHANGED <<docs, dry_run, fs0, pc>>
  /\ UNCHANGED <<body, out, prev, passes>>

\* one turn of the loop: port_skill raises, nothing catches the exception
\* and main ends with it
PortRaises ==
  /\ pc = "loop"
  /\ idx <= Len(docs)
  /\ port_skill(idx, docs[idx], fs, dry_run).raised
  /\ pc' = "raised"
  /\ UNCHANGED <<docs, dry_run, fs, fs0, idx, results, created, skipped>>
  /\ UNCHANGED <<body, out, prev, passes>>

\* the loop is over: the summary is printed and main returns 0
Summary ==
  /\ pc = "loop"
  /\ idx > Len(docs)
  /\ pc' = "done"
  /\ UNCHANGED batchVars
  /\ UNCHANGED <<body, out, prev, passes>>

Next == PortNext \/ PortRaises \/ Summary

Spec == Init /\ [][Next]_vars

\* the loop of main run to its end from document i on: the results so far,
\* the output directory, and whether a call raised
RECURSIVE RunBatch(_, _, _, _, _)
RunBatch(ds, i, f, dry, acc) ==
  IF i > Len(ds) THEN [results |-> acc, fs |-> f, raised |-> FALSE]
  ELSE LET r == port_skill(i, ds[i], f, dry)
       IN IF r.raised THEN [results |-> acc, fs |-> f, raised |-> TRUE]
          ELSE RunBatch(ds, i + 1, r.fs, dry,
                        Append(acc, [kind |-> r.kind, what |-> r.what,
                                     was_created |-> r.was_created]))

(***************************************************************************)
(* Properties of the batch                                                 *)
(***************************************************************************)
NameOf(content) == Get(extract_frontmatter(content).frontmatter, "name")

DescriptionOf(content) == Get(extract_frontmatter(content).frontmatter, "description")

\* the destination SKILL.md of a document that has a name
Dest(content) == Components(<<"axiom-">> \o NameOf(content)) \o <<<<"SKILL.md">>>>

NoMetadataBlock(content) == ~StartsWith(content, <<"---">>)

Reported == 1..Len(results)

\* C5 as stated: a document with no metadata block is ported, port_skill
\* produces an output document for it.
C5_NoMetadataIsPorted ==
  \A i \in Reported :
    NoMetadataBlock(docs[i]) => results[i].kind \in {"CREATED", "WOULD CREATE"}

\* C5, amended: a document with no metadata block is skipped for want of a
\* name and nothing is written for it; a document with a name and no
\* description that a live run creates is written with a metadata block
\* holding the derived identifier only, followed by transform_body of the
\* input body. The written file is read back with extract_frontmatter.
C5_NamedOnlyRoundTrip ==
  /\ \A i \in Reported :
       NoMetadataBlock(docs[i])
         => results[i].kind = "SKIP (no name)" /\ ~results[i].was_created
  /\ DOMAIN fs.files =
       DOMAIN fs0.files \cup {Dest(docs[i]) : i \in {j \in Reported : results[j].kind = "CREATED"}}
  /\ \A i \in Reported :
       (results[i].kind = "CREATED" /\ DescriptionOf(docs[i]) = <<>>)
         => LET written == fs.files[Dest(docs[i])]
                back    == extract_frontmatter(written)
            IN /\ DOMAIN back.frontmatter = {<<"name">>}
               /\ back.frontmatter[<<"name">>] = <<"axiom-">> \o NameOf(docs[i])
               /\ back.body = transform_body(extract_frontmatter(docs[i]).body)
               /\ ~Contains(SubSeq(written, 1, Len(written) - Len(back.body)), "description")

\* a live run has skipped a document with no metadata block and has created
\* the skill of a document with a name, no description and a body the
\* style transforms change
C5_Witness ==
  /\ ~dry_run
  /\ \E i, j \in Reported :
       /\ NoMetadataBlock(docs[i])
       /\ results[i].kind = "SKIP (no name)"
       /\ results[j].kind = "CREATED"
       /\ DescriptionOf(docs[j]) = <<>>
       /\ extract_frontmatter(docs[j]).body = StyledBody
       /\ fs.files[Dest(docs[j])]
            = <<"---", "\n", "name", ":", " ", "axiom-", "a", "\n", "---", "\n",
                "#", " ", "a", "\n", "\n", "#", "#", " ", "a">>

\* C6: a document without a name is reported as skipped and counted in
\* skipped, no file or directory is created or changed for it, and once a
\* document has been skipped every later document of the batch still gets
\* its own outcome.
C6_SkipThenRestProcessed ==
  [][/\ (pc = "loop" /\ idx <= Len(docs) /\ NameOf(docs[idx]) = <<>>)
          => /\ Len(results') = Len(results) + 1
             /\ results'[idx].kind = "SKIP (no name)"
             /\ ~results'[idx].was_created
             /\ skipped' = skipped + 1
             /\ created' = created
             /\ fs' = fs
     /\ (/\ pc = "loop"
         /\ idx <= Len(docs)
         /\ \E i \in Reported : results[i].kind = "SKIP (no name)")
          => Len(results') = Len(results) + 1]_vars

\* C7: once a SKILL.md exists its content is never changed, and a call
\* whose destination exists returns EXISTS, was_created false, and writes
\* nothing.
C7_NeverOverwrites ==
  [][/\ \A p \in DOMAIN fs.files :
          p \in DOMAIN fs'.files /\ fs'.files[p] = fs.files[p]
     /\ (/\ idx' = idx + 1
         /\ NameOf(docs[idx]) # <<>>
         /\ (Dest(docs[idx]) \in DOMAIN fs.files \/ Dest(docs[idx]) \in fs.dirs))
          => /\ results'[idx].kind = "EXISTS"
             /\ ~results'[idx].was_created
             /\ fs' = fs]_vars

\* a live run has created a skill and has then met a second, different
\* document with the same name
C7_Witness ==
  /\ ~dry_run
  /\ \E i, j \in Reported :
       /\ i < j
       /\ results[i].kind = "CREATED"
       /\ results[j].kind = "EXISTS"
       /\ results[i].what = results[j].what
       /\ extract_frontmatter(docs[i]).body # extract_frontmatter(docs[j]).body

\* C10: a dry run reports for every document the created or skipped
\* outcome, and in total the counts, that a live run of the same batch from
\* the same output directory reports (the batches whose live run ends with
\* an exception left aside).
C10_DryRunAgreesWithLive ==
  LET live == RunBatch(docs, 1, fs0, FALSE, <<>>)
  IN (pc = "done" /\ dry_run /\ ~live.raised) =>
       /\ Len(live.results) = Len(results)
       /\ \A i \in Reported : live.results[i].was_created = results[i].was_created
       /\ created = Cardinality({i \in 1..Len(live.results) : live.results[i].was_created})
       /\ skipped = Cardinality({i \in 1..Len(live.results) : ~live.results[i].was_created})

====
